---- MODULE Spec2Model ----
(***************************************************************************)
(* Byte Pair Encoding tokenizer (simple-tokenizer-ts).                     *)
(*                                                                         *)
(* A JavaScript string is modelled as the sequence of its UTF-16 code      *)
(* units (integers); a token is such a string; a token sequence is a       *)
(* sequence of tokens.  A Map is modelled as the sequence of its           *)
(* <<key, value>> entries in insertion order.                              *)
(***************************************************************************)
EXTENDS Integers, Sequences, FiniteSets, TLC

\* ------------------------------------------------------------------------
\* Bounds of the model
\* ------------------------------------------------------------------------
\* longest training text, counted in pieces of TextPieces
MaxTextLen == 2
\* longest token sequence handed to an exported helper
MaxSeqLen == 4
\* longest id list handed to decode by a client with a vocabulary of its own
MaxIds == 2
\* largest number of vocabulary entries asked for beyond the 256 byte tokens
MaxExtra == 6
\* longest token handed to tokenToBytes, counted in pieces of EscapePieces
MaxPieces == 2

\* ------------------------------------------------------------------------
\* JavaScript values
\* ------------------------------------------------------------------------
\* `undefined` as returned by Map.get for a missing key whose values are numbers
undefined == -1
\* `undefined` as returned by Map.get for a missing key whose values are strings
undefinedToken == <<undefined>>
\* NaN as returned by parseInt (no byte value and no parse result equals it)
NaN == 100000

RECURSIVE Flatten(_)
Flatten(ss) == IF ss = <<>> THEN <<>> ELSE Head(ss) \o Flatten(Tail(ss))

\* ------------------------------------------------------------------------
\* Map (insertion-ordered entries)
\* ------------------------------------------------------------------------
MapHas(m, k) == \E i \in 1..Len(m) : m[i][1] = k
MapIndex(m, k) == CHOOSE i \in 1..Len(m) : m[i][1] = k
MapValue(m, k) == m[MapIndex(m, k)][2]
MapSet(m, k, v) ==
    IF MapHas(m, k) THEN [m EXCEPT ![MapIndex(m, k)] = <<k, v>>]
    ELSE Append(m, <<k, v>>)

\* ------------------------------------------------------------------------
\* class Vocabulary
\* ------------------------------------------------------------------------
NewVocabulary == [tokenToId |-> <<>>, idToToken |-> <<>>]

size(V) == Len(V.tokenToId)

getId(V, token) ==
    IF MapHas(V.tokenToId, token) THEN MapValue(V.tokenToId, token) ELSE undefined

getToken(V, id) ==
    IF MapHas(V.idToToken, id) THEN MapValue(V.idToToken, id) ELSE undefinedToken

\* addToken without the has() test: a token already present is given a new id
addTokenNoCheck(V, token) ==
    [tokenToId |-> MapSet(V.tokenToId, token, Len(V.tokenToId)),
     idToToken |-> MapSet(V.idToToken, Len(V.tokenToId), token)]

\* the vocabulary after addToken(token)
addToken(V, token) ==
    IF MapHas(V.tokenToId, token) THEN V
    ELSE [tokenToId |-> MapSet(V.tokenToId, token, Len(V.tokenToId)),
          idToToken |-> MapSet(V.idToToken, Len(V.tokenToId), token)]

\* the value addToken(token) returns
addTokenResult(V, token) ==
    IF MapHas(V.tokenToId, token) THEN MapValue(V.tokenToId, token)
    ELSE Len(V.tokenToId)

getAllTokens(V) == V.tokenToId

\* ------------------------------------------------------------------------
\* Byte codec
\* ------------------------------------------------------------------------
IsHighSurrogate(c) == c >= 55296 /\ c <= 56319
IsLowSurrogate(c) == c >= 56320 /\ c <= 57343

\* UTF-8 bytes of one code point
Utf8OfCodePoint(cp) ==
    IF cp < 128 THEN <<cp>>
    ELSE IF cp < 2048 THEN <<192 + (cp \div 64), 128 + (cp % 64)>>
    ELSE IF cp < 65536 THEN
        <<224 + (cp \div 4096), 128 + ((cp \div 64) % 64), 128 + (cp % 64)>>
    ELSE <<240 + (cp \div 262144), 128 + ((cp \div 4096) % 64),
           128 + ((cp \div 64) % 64), 128 + (cp % 64)>>

\* TextEncoder.encode: UTF-8, a lone surrogate becomes U+FFFD
RECURSIVE textToBytes(_)
textToBytes(text) ==
    IF text = <<>> THEN <<>>
    ELSE LET c == Head(text) IN
         IF IsHighSurrogate(c) /\ Len(text) >= 2 /\ IsLowSurrogate(text[2])
         THEN Utf8OfCodePoint(65536 + (c - 55296) * 1024 + (text[2] - 56320))
              \o textToBytes(Tail(Tail(text)))
         ELSE IF IsHighSurrogate(c) \/ IsLowSurrogate(c)
         THEN Utf8OfCodePoint(65533) \o textToBytes(Tail(text))
         ELSE Utf8OfCodePoint(c) \o textToBytes(Tail(text))

\* Uint8Array element conversion: NaN becomes 0, numbers wrap modulo 256
ToUint8(v) == IF v = NaN THEN 0 ELSE v % 256

\* UTF-16 code units of one code point
Utf16OfCodePoint(cp) ==
    IF cp < 65536 THEN <<cp>>
    ELSE <<55296 + ((cp - 65536) \div 1024), 56320 + ((cp - 65536) % 1024)>>

\* The UTF-8 decoder of TextDecoder (not fatal): bytes from index i on, with
\* the code point under construction cp, the continuation bytes still
\* needed, and the range [lower, upper] allowed for the next byte.
RECURSIVE Utf8Decode(_, _, _, _, _, _)
Utf8Decode(bytes, i, cp, needed, lower, upper) ==
    IF i > Len(bytes) THEN (IF needed # 0 THEN <<65533>> ELSE <<>>)
    ELSE LET b == bytes[i] IN
      IF needed = 0 THEN
        IF b <= 127 THEN <<b>> \o Utf8Decode(bytes, i + 1, 0, 0, 128, 191)
        ELSE IF b >= 194 /\ b <= 223
          THEN Utf8Decode(bytes, i + 1, b % 32, 1, 128, 191)
        ELSE IF b >= 224 /\ b <= 239
          THEN Utf8Decode(bytes, i + 1, b % 16, 2,
                          IF b = 224 THEN 160 ELSE 128,
                          IF b = 237 THEN 159 ELSE 191)
        ELSE IF b >= 240 /\ b <= 244
          THEN Utf8Decode(bytes, i + 1, b % 8, 3,
                          IF b = 240 THEN 144 ELSE 128,
                          IF b = 244 THEN 143 ELSE 191)
        ELSE <<65533>> \o Utf8Decode(bytes, i + 1, 0, 0, 128, 191)
      ELSE IF b < lower \/ b > upper
        THEN <<65533>> \o Utf8Decode(bytes, i, 0, 0, 128, 191)
      ELSE IF needed = 1
        THEN Utf16OfCodePoint(cp * 64 + (b % 64))
             \o Utf8Decode(bytes, i + 1, 0, 0, 128, 191)
      ELSE Utf8Decode(bytes, i + 1, cp * 64 + (b % 64), needed - 1, 128, 191)

\* TextDecoder.decode(new Uint8Array(bytes)): a leading byte order mark is
\* dropped (ignoreBOM is false by default), malformed input becomes U+FFFD
bytesToText(bytes) ==
    LET u8 == [i \in 1..Len(bytes) |-> ToUint8(bytes[i])]
        start == IF Len(u8) >= 3 /\ u8[1] = 239 /\ u8[2] = 187 /\ u8[3] = 191
                 THEN 4 ELSE 1
    IN Utf8Decode(u8, start, 0, 0, 128, 191)

\* one digit of Number.prototype.toString(16)
HexDigit(d) == IF d < 10 THEN 48 + d ELSE 87 + d

\* HexEscape without padStart(2, "0")
HexEscapeNoPad(byte) ==
    <<60, 48, 120>>
    \o (IF byte < 16 THEN <<HexDigit(byte)>>
        ELSE <<HexDigit(byte \div 16), HexDigit(byte % 16)>>)
    \o <<62>>

\* `<0x${byte.toString(16).padStart(2, "0")}>`
HexEscape(byte) == <<60, 48, 120, HexDigit(byte \div 16), HexDigit(byte % 16), 62>>

\* the token with toString(16).toUpperCase() in the escape
ByteTokenUpperCase(byte) ==
    IF byte >= 32 /\ byte < 127 THEN <<byte>>
    ELSE LET upper(d) == IF d < 10 THEN 48 + d ELSE 55 + d
         IN <<60, 48, 120, upper(byte \div 16), upper(byte % 16), 62>>

\* the token textToByteTokens pushes for one byte
ByteToken(byte) ==
    IF byte >= 32 /\ byte < 127 THEN <<byte>> ELSE HexEscape(byte)

textToByteTokens(text) ==
    LET bytes == textToBytes(text)
    IN [i \in 1..Len(bytes) |-> ByteToken(bytes[i])]

\* ------------------------------------------------------------------------
\* tokenToBytes
\* ------------------------------------------------------------------------
\* the white space parseInt skips (WhiteSpace and LineTerminator)
IsWhiteSpace(c) ==
    c \in {9, 10, 11, 12, 13, 32, 160, 5760, 8232, 8233, 8239, 8287, 12288, 65279}
    \/ (c >= 8192 /\ c <= 8202)

\* the value of c as a digit of radix 16, or NaN when it is none
DigitValue(c) ==
    IF c >= 48 /\ c <= 57 THEN c - 48
    ELSE IF c >= 97 /\ c <= 102 THEN c - 87
    ELSE IF c >= 65 /\ c <= 70 THEN c - 55
    ELSE NaN

\* parseInt(hex, 16) for the two characters token.slice(i + 3, i + 5):
\* leading white space is skipped, then a sign, then a 0x prefix, and the
\* longest run of hexadecimal digits is the value (NaN when it is empty)
parseInt16(hex) ==
    LET c1 == hex[1]
        c2 == hex[2]
        d1 == DigitValue(c1)
        d2 == DigitValue(c2)
    IN IF IsWhiteSpace(c1) THEN d2
       ELSE IF c1 = 43 THEN d2
       ELSE IF c1 = 45 THEN (IF d2 = NaN THEN NaN ELSE 0 - d2)
       ELSE IF c1 = 48 /\ c2 \in {120, 88} THEN NaN
       ELSE IF d1 = NaN THEN NaN
       ELSE IF d2 = NaN THEN d1
       ELSE 16 * d1 + d2

\* the while loop of tokenToBytes from index i (1-based) on
RECURSIVE tokenToBytesFrom(_, _)
tokenToBytesFrom(token, i) ==
    IF i > Len(token) THEN <<>>
    ELSE IF /\ i + 5 <= Len(token)
            /\ SubSeq(token, i, i + 2) = <<60, 48, 120>>
            /\ token[i + 5] = 62
         THEN <<parseInt16(SubSeq(token, i + 3, i + 4))>>
              \o tokenToBytesFrom(token, i + 6)
         ELSE <<token[i]>> \o tokenToBytesFrom(token, i + 1)

tokenToBytes(token) == tokenToBytesFrom(token, 1)

\* ------------------------------------------------------------------------
\* Pair statistics and merge engine
\* ------------------------------------------------------------------------
\* the key without the separating "\0"
PairKeyNoSeparator(left, right) == left \o right

\* the Map key of the pair (left, right): left + "\0" + right
PairKey(left, right) == left \o <<0>> \o right

\* countPairs with the loop bound i < tokens.length: the last token is
\* paired with tokens[tokens.length], which is undefined and concatenates
\* as the nine characters "undefined"
RECURSIVE countPairsFromOffByOne(_, _, _)
countPairsFromOffByOne(tokens, i, pairCounts) ==
    IF i > Len(tokens) THEN pairCounts
    ELSE LET next == IF i + 1 <= Len(tokens) THEN tokens[i + 1]
                     ELSE <<117, 110, 100, 101, 102, 105, 110, 101, 100>>
             key == PairKey(tokens[i], next)
             old == IF MapHas(pairCounts, key) THEN MapValue(pairCounts, key) ELSE 0
         IN countPairsFromOffByOne(tokens, i + 1, MapSet(pairCounts, key, old + 1))

\* the for loop of countPairs from index i on, pairCounts being the Map so far
RECURSIVE countPairsFrom(_, _, _)
countPairsFrom(tokens, i, pairCounts) ==
    IF i > Len(tokens) - 1 THEN pairCounts
    ELSE LET key == PairKey(tokens[i], tokens[i + 1])
             old == IF MapHas(pairCounts, key) THEN MapValue(pairCounts, key) ELSE 0
         IN countPairsFrom(tokens, i + 1, MapSet(pairCounts, key, old + 1))

countPairs(tokens) == countPairsFrom(tokens, 1, <<>>)

\* key.split("\0"): the pieces of key between occurrences of the character 0
RECURSIVE SplitNul(_, _)
SplitNul(key, piece) ==
    IF key = <<>> THEN <<piece>>
    ELSE IF Head(key) = 0 THEN <<piece>> \o SplitNul(Tail(key), <<>>)
    ELSE SplitNul(Tail(key), Append(piece, Head(key)))

\* element n (0-based) of key.split("\0"), undefined beyond its length
SplitField(key, n) ==
    LET parts == SplitNul(key, <<>>)
    IN IF n + 1 <= Len(parts) THEN parts[n + 1] ELSE undefinedToken

\* the loop with >= in place of >: a later entry with an equal count wins
RECURSIVE mostFrequentFromLastTied(_, _, _)
mostFrequentFromLastTied(pairCounts, i, best) ==
    IF i > Len(pairCounts) THEN best
    ELSE LET key == pairCounts[i][1]
             value == pairCounts[i][2]
         IN IF best = <<>> \/ value >= best[3]
            THEN mostFrequentFromLastTied(pairCounts, i + 1,
                                  <<SplitField(key, 0), SplitField(key, 1), value>>)
            ELSE mostFrequentFromLastTied(pairCounts, i + 1, best)

\* the for loop of getMostFrequentPair from entry i on; best is null (<<>>)
\* or the triple <<left, right, count>> chosen so far
RECURSIVE mostFrequentFrom(_, _, _)
mostFrequentFrom(pairCounts, i, best) ==
    IF i > Len(pairCounts) THEN best
    ELSE LET key == pairCounts[i][1]
             value == pairCounts[i][2]
         IN IF best = <<>> \/ value > best[3]
            THEN mostFrequentFrom(pairCounts, i + 1,
                                  <<SplitField(key, 0), SplitField(key, 1), value>>)
            ELSE mostFrequentFrom(pairCounts, i + 1, best)

\* null is modelled as the empty tuple
getMostFrequentPair(pairCounts) ==
    IF Len(pairCounts) = 0 THEN <<>> ELSE mostFrequentFrom(pairCounts, 1, <<>>)

\* mergePairs without the i++ after a match: matches may overlap
RECURSIVE mergePairsFromOverlapping(_, _, _, _, _)
mergePairsFromOverlapping(tokens, i, token1, token2, merged) ==
    IF i > Len(tokens) THEN <<>>
    ELSE IF tokens[i] = token1 /\ i + 1 <= Len(tokens) /\ tokens[i + 1] = token2
         THEN <<merged>> \o mergePairsFromOverlapping(tokens, i + 1, token1, token2, merged)
         ELSE <<tokens[i]>> \o mergePairsFromOverlapping(tokens, i + 1, token1, token2, merged)

\* the loop pushing merged without skipping the right half of the pair
RECURSIVE mergePairsFromKeepingRight(_, _, _, _, _)
mergePairsFromKeepingRight(tokens, i, token1, token2, merged) ==
    IF i > Len(tokens) THEN <<>>
    ELSE IF tokens[i] = token1 /\ i + 1 <= Len(tokens) /\ tokens[i + 1] = token2
         THEN <<merged, token2>>
              \o mergePairsFromKeepingRight(tokens, i + 2, token1, token2, merged)
         ELSE <<tokens[i]>>
              \o mergePairsFromKeepingRight(tokens, i + 1, token1, token2, merged)

\* the for loop of mergePairs from index i on; tokens[i + 1] beyond the end
\* is undefined and equals no token
RECURSIVE mergePairsFrom(_, _, _, _, _)
mergePairsFrom(tokens, i, token1, token2, merged) ==
    IF i > Len(tokens) THEN <<>>
    ELSE IF tokens[i] = token1 /\ i + 1 <= Len(tokens) /\ tokens[i + 1] = token2
         THEN <<merged>> \o mergePairsFrom(tokens, i + 2, token1, token2, merged)
         ELSE <<tokens[i]>> \o mergePairsFrom(tokens, i + 1, token1, token2, merged)

mergePairs(tokens, token1, token2, merged) ==
    mergePairsFrom(tokens, 1, token1, token2, merged)

\* initializeByteVocab with i > 32 for i >= 32: the space is escaped
InitByteTokenOffByOne(i) ==
    IF i > 32 /\ i < 127 THEN <<i>> ELSE HexEscape(i)

\* the token initializeByteVocab registers for i
InitByteToken(i) ==
    IF i >= 32 /\ i < 127 THEN <<i>> ELSE HexEscape(i)

\* the iterations lo <= i < hi of the for loop of initializeByteVocab, in
\* order; the range is split in halves and the first half is evaluated
\* (its size is read) before the second, which keeps the evaluation shallow
RECURSIVE initializeByteVocabRange(_, _, _)
initializeByteVocabRange(V, lo, hi) ==
    IF lo >= hi THEN V
    ELSE IF hi = lo + 1 THEN addToken(V, InitByteToken(lo))
    ELSE LET mid == (lo + hi) \div 2
             firstHalf == initializeByteVocabRange(V, lo, mid)
         IN IF size(firstHalf) >= 0
            THEN initializeByteVocabRange(firstHalf, mid, hi)
            ELSE firstHalf

\* the vocabulary after initializeByteVocab(vocab)
initializeByteVocab(V) == initializeByteVocabRange(V, 0, 256)

\* ------------------------------------------------------------------------
\* encode, encodeWithDetails, decode
\* ------------------------------------------------------------------------
\* the merge loop running over the table from its last rule to its first
RECURSIVE ApplyMergesReversed(_, _)
ApplyMergesReversed(tokens, merges) ==
    IF merges = <<>> THEN tokens
    ELSE LET last == merges[Len(merges)]
         IN ApplyMergesReversed(mergePairs(tokens, last[1], last[2], last[3]),
                                SubSeq(merges, 1, Len(merges) - 1))

\* for (const [token1, token2, merged] of merges) tokens = mergePairs(...)
RECURSIVE ApplyMerges(_, _)
ApplyMerges(tokens, merges) ==
    IF merges = <<>> THEN tokens
    ELSE ApplyMerges(mergePairs(tokens, Head(merges)[1], Head(merges)[2], Head(merges)[3]),
                     Tail(merges))

\* the loop of encode with `continue` in place of `throw`: a token without
\* an id is dropped
RECURSIVE TokensToIdsDropping(_, _, _, _)
TokensToIdsDropping(tokens, V, i, ids) ==
    IF i > Len(tokens) THEN [threw |-> FALSE, ids |-> ids, missing |-> undefinedToken]
    ELSE LET id == getId(V, tokens[i])
         IN IF id = undefined
            THEN TokensToIdsDropping(tokens, V, i + 1, ids)
            ELSE TokensToIdsDropping(tokens, V, i + 1, Append(ids, id))

\* the loop that maps tokens to ids from index i on: it throws at the first
\* token without an id, and the ids pushed so far are lost with the frame
RECURSIVE TokensToIds(_, _, _, _)
TokensToIds(tokens, V, i, ids) ==
    IF i > Len(tokens) THEN [threw |-> FALSE, ids |-> ids, missing |-> undefinedToken]
    ELSE LET id == getId(V, tokens[i])
         IN IF id = undefined
            THEN [threw |-> TRUE, ids |-> <<>>, missing |-> tokens[i]]
            ELSE TokensToIds(tokens, V, i + 1, Append(ids, id))

\* the outcome of encodeWithDetails(text, vocab, merges)
encodeWithDetails(text, V, merges) ==
    LET tokens == ApplyMerges(textToByteTokens(text), merges)
        r == TokensToIds(tokens, V, 1, <<>>)
    IN [threw |-> r.threw, ids |-> r.ids,
        tokens |-> IF r.threw THEN <<>> ELSE tokens, missing |-> r.missing]

\* the outcome of encode(text, vocab, merges)
encode(text, V, merges) ==
    LET tokens == ApplyMerges(textToByteTokens(text), merges)
        r == TokensToIds(tokens, V, 1, <<>>)
    IN [threw |-> r.threw, ids |-> r.ids, missing |-> r.missing]

\* the first loop of decode with `continue` in place of `throw`: an id
\* without a token is skipped
RECURSIVE IdsToTokensSkipping(_, _, _, _)
IdsToTokensSkipping(ids, V, i, tokens) ==
    IF i > Len(ids) THEN [threw |-> FALSE, tokens |-> tokens, missing |-> undefined]
    ELSE LET token == getToken(V, ids[i])
         IN IF token = undefinedToken
            THEN IdsToTokensSkipping(ids, V, i + 1, tokens)
            ELSE IdsToTokensSkipping(ids, V, i + 1, Append(tokens, token))

\* the first loop of decode from index i on
RECURSIVE IdsToTokens(_, _, _, _)
IdsToTokens(ids, V, i, tokens) ==
    IF i > Len(ids) THEN [threw |-> FALSE, tokens |-> tokens, missing |-> undefined]
    ELSE LET token == getToken(V, ids[i])
         IN IF token = undefinedToken
            THEN [threw |-> TRUE, tokens |-> <<>>, missing |-> ids[i]]
            ELSE IdsToTokens(ids, V, i + 1, Append(tokens, token))

\* the outcome of decode(ids, vocab)
decode(ids, V) ==
    LET r == IdsToTokens(ids, V, 1, <<>>)
    IN IF r.threw THEN [threw |-> TRUE, text |-> <<>>, missing |-> r.missing]
       ELSE [threw |-> FALSE,
             text |-> bytesToText(Flatten([k \in 1..Len(r.tokens) |->
                                             tokenToBytes(r.tokens[k])])),
             missing |-> undefined]

\* ------------------------------------------------------------------------
\* Inputs of the model
\* ------------------------------------------------------------------------
\* the pieces texts are made of: "a", "b", the six characters "<0x0a>", "e"
\* with an acute accent (U+00E9, two bytes in UTF-8) and U+FEFF (three bytes
\* in UTF-8, the byte order mark)
TextPieces == { <<97>>, <<98>>, <<60, 48, 120, 48, 97, 62>>, <<233>>, <<65279>> }

\* the texts of at most n pieces
RECURSIVE TextsUpTo(_)
TextsUpTo(n) ==
    IF n = 0 THEN { <<>> }
    ELSE TextsUpTo(n - 1) \cup { t \o p : t \in TextsUpTo(n - 1), p \in TextPieces }

TrainingTexts == TextsUpTo(MaxTextLen)
\* the texts handed to encode: the empty text, each piece, each piece twice
EncodeTexts == { <<>> } \cup TextPieces \cup { p \o p : p \in TextPieces }
TargetSizes == {0} \cup (256..(256 + MaxExtra))

\* ------------------------------------------------------------------------
\* State
\* ------------------------------------------------------------------------
VARIABLES
    pc,               \* "training" inside the loop of trainBPE, "done" once it returned, "idle" when it was never called
    text,             \* trainBPE: argument text
    targetVocabSize,  \* trainBPE: argument targetVocabSize
    hasOnStep,        \* trainBPE: whether an onStep callback was passed
    vocab,            \* the Vocabulary: [tokenToId, idToToken]
    merges,           \* the merge table: sequence of <<token1, token2, merged>>
    steps,            \* trainBPE: the step history
    tokens,           \* trainBPE: the working token sequence
    stepNum,          \* trainBPE: local stepNum
    onStepLog,        \* the step records onStep was called with, in call order
    prevResults,      \* what earlier calls of trainBPE with the same text and target returned
    encText,          \* the text of the last encode / encodeWithDetails call
    encOut,           \* its outcome
    decIds,           \* the ids of the last decode call
    decOut,           \* its outcome
    addArg,           \* the token of the last Vocabulary.addToken call made by a client
    addOut,           \* what that call returned (undefined before the first call)
    fnName,           \* the exported helper a client called last ("none" before the first call)
    fnArgs,           \* its arguments
    fnOut             \* what it returned

vars == <<pc, text, targetVocabSize, hasOnStep, vocab, merges, steps, tokens, stepNum,
          onStepLog, prevResults, encText, encOut, decIds, decOut, addArg, addOut,
          fnName, fnArgs, fnOut>>

trainVars == <<pc, text, targetVocabSize, hasOnStep, vocab, merges, steps, tokens,
               stepNum, onStepLog, prevResults>>
callVars == <<encText, encOut, decIds, decOut, addArg, addOut, fnName, fnArgs, fnOut>>

NoEncode == [op |-> "none", threw |-> FALSE, ids |-> <<>>, tokens |-> <<>>,
             missing |-> undefinedToken]
NoDecode == [op |-> "none", threw |-> FALSE, text |-> <<>>, missing |-> undefined]

NoCalls ==
    /\ encText = <<>>
    /\ encOut = NoEncode
    /\ decIds = <<>>
    /\ decOut = NoDecode
    /\ addArg = <<>>
    /\ addOut = undefined
    /\ fnName = "none"
    /\ fnArgs = <<>>
    /\ fnOut = <<>>

\* ------------------------------------------------------------------------
\* trainBPE
\* ------------------------------------------------------------------------
\* lines 170 and 174: a new Vocabulary after initializeByteVocab
FreshByteVocab == initializeByteVocab(NewVocabulary)

\* trainBPE with `vocab` hoisted to module scope: a later call starts from
\* the vocabulary the earlier one left
trainBPEEntrySharedVocab(t, n, cb) ==
    /\ pc' = "training"
    /\ text' = t
    /\ targetVocabSize' = n
    /\ hasOnStep' = cb
    /\ vocab' = initializeByteVocab(vocab)
    /\ merges' = <<>>
    /\ steps' = <<>>
    /\ tokens' = textToByteTokens(t)
    /\ stepNum' = 0
    /\ onStepLog' = <<>>

\* lines 170-177: the locals of trainBPE when its loop is first reached
trainBPEEntry(t, n, cb) ==
    /\ pc' = "training"
    /\ text' = t
    /\ targetVocabSize' = n
    /\ hasOnStep' = cb
    /\ vocab' = FreshByteVocab
    /\ merges' = <<>>
    /\ steps' = <<>>
    /\ tokens' = textToByteTokens(t)
    /\ stepNum' = 0
    /\ onStepLog' = <<>>

Init ==
    /\ \E t \in TrainingTexts, n \in TargetSizes, cb \in BOOLEAN :
         /\ pc = "training"
         /\ text = t
         /\ targetVocabSize = n
         /\ hasOnStep = cb
         /\ vocab = FreshByteVocab
         /\ merges = <<>>
         /\ steps = <<>>
         /\ tokens = textToByteTokens(t)
         /\ stepNum = 0
         /\ onStepLog = <<>>
    /\ prevResults = <<>>
    /\ NoCalls

\* line 178: the condition of the while loop
LoopConditionOffByOne(V, n) == size(V) <= n
LoopCondition(V, n) == size(V) < n

\* the loop body with stepNum++ moved below the step record
TrainStepLateIncrement ==
    /\ pc = "training"
    /\ LoopCondition(vocab, targetVocabSize)
    /\ LET pairCounts == countPairs(tokens)
           mostFrequentPair == getMostFrequentPair(pairCounts)
       IN /\ mostFrequentPair # <<>>
          /\ LET token1 == mostFrequentPair[1]
                 token2 == mostFrequentPair[2]
                 count == mostFrequentPair[3]
                 merged == token1 \o token2
                 newVocab == addToken(vocab, merged)
                 newTokens == mergePairs(tokens, token1, token2, merged)
                 step == [step |-> stepNum,
                          pair |-> <<token1, token2>>,
                          merged |-> merged,
                          frequency |-> count,
                          vocabSize |-> size(newVocab),
                          tokens |-> newTokens]
             IN /\ vocab' = newVocab
                /\ merges' = Append(merges, <<token1, token2, merged>>)
                /\ tokens' = newTokens
                /\ stepNum' = stepNum + 1
                /\ steps' = Append(steps, step)
                /\ onStepLog' = IF hasOnStep THEN Append(onStepLog, step) ELSE onStepLog
    /\ UNCHANGED <<pc, text, targetVocabSize, hasOnStep, prevResults>>
    /\ UNCHANGED callVars

\* one iteration of the while loop (lines 178-203) that merges a pair
TrainStep ==
    /\ pc = "training"
    /\ LoopCondition(vocab, targetVocabSize)
    /\ LET pairCounts == countPairs(tokens)
           mostFrequentPair == getMostFrequentPair(pairCounts)
       IN /\ mostFrequentPair # <<>>
          /\ LET token1 == mostFrequentPair[1]
                 token2 == mostFrequentPair[2]
                 count == mostFrequentPair[3]
                 merged == token1 \o token2
                 newVocab == addToken(vocab, merged)
                 newTokens == mergePairs(tokens, token1, token2, merged)
                 step == [step |-> stepNum + 1,
                          pair |-> <<token1, token2>>,
                          merged |-> merged,
                          frequency |-> count,
                          vocabSize |-> size(newVocab),
                          tokens |-> newTokens]
             IN /\ vocab' = newVocab
                /\ merges' = Append(merges, <<token1, token2, merged>>)
                /\ tokens' = newTokens
                /\ stepNum' = stepNum + 1
                /\ steps' = Append(steps, step)
                /\ onStepLog' = IF hasOnStep THEN Append(onStepLog, step) ELSE onStepLog
    /\ UNCHANGED <<pc, text, targetVocabSize, hasOnStep, prevResults>>
    /\ UNCHANGED callVars

\* line 181: no pair is left, the loop is left by break and trainBPE returns
TrainBreak ==
    /\ pc = "training"
    /\ LoopCondition(vocab, targetVocabSize)
    /\ getMostFrequentPair(countPairs(tokens)) = <<>>
    /\ pc' = "done"
    /\ UNCHANGED <<text, targetVocabSize, hasOnStep, vocab, merges, steps, tokens,
                   stepNum, onStepLog, prevResults>>
    /\ UNCHANGED callVars

\* line 178: the loop condition is false, trainBPE returns
TrainReturn ==
    /\ pc = "training"
    /\ ~LoopCondition(vocab, targetVocabSize)
    /\ pc' = "done"
    /\ UNCHANGED <<text, targetVocabSize, hasOnStep, vocab, merges, steps, tokens,
                   stepNum, onStepLog, prevResults>>
    /\ UNCHANGED callVars

\* line 205: the value trainBPE returns
TrainingResult == [vocab |-> vocab, merges |-> merges, steps |-> steps]

\* ------------------------------------------------------------------------
\* Calls of encode, encodeWithDetails and decode
\* ------------------------------------------------------------------------
Encode(t) ==
    /\ pc # "training"
    /\ encText' = t
    /\ encOut' = [op |-> "encode", tokens |-> <<>>] @@ encode(t, vocab, merges)
    /\ decIds' = <<>>
    /\ decOut' = NoDecode
    /\ UNCHANGED <<addArg, addOut, fnName, fnArgs, fnOut>>
    /\ UNCHANGED trainVars

EncodeWithDetails(t) ==
    /\ pc # "training"
    /\ encText' = t
    /\ encOut' = [op |-> "encodeWithDetails"] @@ encodeWithDetails(t, vocab, merges)
    /\ decIds' = <<>>
    /\ decOut' = NoDecode
    /\ UNCHANGED <<addArg, addOut, fnName, fnArgs, fnOut>>
    /\ UNCHANGED trainVars

Decode(ids) ==
    /\ pc # "training"
    /\ decIds' = ids
    /\ decOut' = [op |-> "decode"] @@ decode(ids, vocab)
    /\ UNCHANGED <<encText, encOut, addArg, addOut, fnName, fnArgs, fnOut>>
    /\ UNCHANGED trainVars

\* decode(encode(T, vocab, merges), vocab): decode is given what encode returned
DecodeEncoded ==
    /\ encOut.op # "none"
    /\ ~encOut.threw
    /\ decOut.op = "none"
    /\ Decode(encOut.ids)

\* ------------------------------------------------------------------------
\* Training, then encoding and decoding with what training returned
\* ------------------------------------------------------------------------
\* a client that trains and then encodes one text and decodes the result
\* (encode and decode only read the vocabulary and the merge table, so
\* further calls would see the same vocabulary and merge table)
EncodeOnce(t) == pc = "done" /\ encOut.op = "none" /\ Encode(t)
EncodeWithDetailsOnce(t) == pc = "done" /\ encOut.op = "none" /\ EncodeWithDetails(t)

Next ==
    \/ TrainStep
    \/ TrainBreak
    \/ TrainReturn
    \/ \E t \in EncodeTexts : EncodeOnce(t)
    \/ \E t \in EncodeTexts : EncodeWithDetailsOnce(t)
    \/ DecodeEncoded

Spec == Init /\ [][Next]_vars

\* ------------------------------------------------------------------------
\* trainBPE called a second time with the same text and target size
\* ------------------------------------------------------------------------
TrainAgain ==
    /\ pc = "done"
    /\ prevResults = <<>>
    /\ prevResults' = <<TrainingResult>>
    /\ \E cb \in BOOLEAN : trainBPEEntry(text, targetVocabSize, cb)
    /\ UNCHANGED callVars

NextTwice ==
    \/ TrainStep
    \/ TrainBreak
    \/ TrainReturn
    \/ TrainAgain

SpecTwice == Init /\ [][NextTwice]_vars

\* trainBPE alone, also asked for a vocabulary no text of the model can fill
TerminationTargets == TargetSizes \cup {1000000}

InitTermination ==
    /\ \E t \in TrainingTexts, n \in TerminationTargets, cb \in BOOLEAN :
         /\ pc = "training"
         /\ text = t
         /\ targetVocabSize = n
         /\ hasOnStep = cb
         /\ vocab = FreshByteVocab
         /\ merges = <<>>
         /\ steps = <<>>
         /\ tokens = textToByteTokens(t)
         /\ stepNum = 0
         /\ onStepLog = <<>>
    /\ prevResults = <<>>
    /\ NoCalls

NextTermination ==
    \/ TrainStep
    \/ TrainBreak
    \/ TrainReturn

\* the training text itself is encoded with the vocabulary of the run and
\* the first k rules of its merge table
ReplayPrefix(k) ==
    /\ pc = "done"
    /\ fnName = "none"
    /\ fnName' = "encodeWithDetails"
    /\ fnArgs' = <<text, k>>
    /\ fnOut' = encodeWithDetails(text, vocab, SubSeq(merges, 1, k))
    /\ UNCHANGED <<encText, encOut, decIds, decOut, addArg, addOut>>
    /\ UNCHANGED trainVars

NextReplay ==
    \/ TrainStep
    \/ TrainBreak
    \/ TrainReturn
    \/ \E k \in 0..Len(merges) : ReplayPrefix(k)

SpecReplay == Init /\ [][NextReplay]_vars

\* what every step of NextTermination does to pc and stepNum: the loop is
\* left, or one more iteration is counted. While trainBPE runs one of the
\* three steps is possible, their guards (the loop condition and the null
\* test of line 181) leaving no case out.
LoopAdvances ==
    /\ pc = "training"
    /\ \/ pc' = "done" /\ stepNum' = stepNum
       \/ pc' = pc /\ stepNum' = stepNum + 1

\* trainBPE is one synchronous loop with no wait in it: while it runs, its
\* next iteration or its return is taken
SpecTermination ==
    InitTermination /\ [][NextTermination]_vars /\ WF_<<pc, stepNum>>(LoopAdvances)

\* ------------------------------------------------------------------------
\* A client that calls the exported helpers on token sequences of its own
\* ------------------------------------------------------------------------
\* no call of trainBPE is or was active
Idle ==
    /\ pc = "idle"
    /\ text = <<>>
    /\ targetVocabSize = 0
    /\ hasOnStep = FALSE
    /\ steps = <<>>
    /\ tokens = <<>>
    /\ stepNum = 0
    /\ onStepLog = <<>>
    /\ prevResults = <<>>

\* the tokens of these sequences: "a", "b", "aa"
HelperTokens == { <<97>>, <<98>>, <<97, 97>> }

RECURSIVE SeqsUpTo(_, _)
SeqsUpTo(S, n) ==
    IF n = 0 THEN { <<>> }
    ELSE SeqsUpTo(S, n - 1) \cup { Append(q, x) : q \in SeqsUpTo(S, n - 1), x \in S }

HelperSeqs == SeqsUpTo(HelperTokens, MaxSeqLen)

InitHelpers ==
    /\ Idle
    /\ vocab = NewVocabulary
    /\ merges = <<>>
    /\ NoCalls

\* the helpers are functions of their arguments alone: one call per behaviour
CallMergePairs(toks, token1, token2, merged) ==
    /\ fnName = "none"
    /\ fnName' = "mergePairs"
    /\ fnArgs' = <<toks, token1, token2, merged>>
    /\ fnOut' = mergePairs(toks, token1, token2, merged)
    /\ UNCHANGED <<encText, encOut, decIds, decOut, addArg, addOut>>
    /\ UNCHANGED trainVars

\* the characters of the helper texts: "a", " ", "~", DEL, LF, "e" acute,
\* U+4E16, and the two halves of the surrogate pair of U+1F680
HelperChars == { 97, 32, 126, 127, 10, 233, 19990, 55357, 56960 }

HelperTexts == SeqsUpTo(HelperChars, MaxTextLen + 1)

\* the byte loop of decode: bytes.push(...tokenToBytes(token)) for each token
TokensToBytes(toks) == Flatten([k \in 1..Len(toks) |-> tokenToBytes(toks[k])])

CallTextToByteTokens(t) ==
    /\ fnName = "none"
    /\ fnName' = "textToByteTokens"
    /\ fnArgs' = <<t>>
    /\ fnOut' = textToByteTokens(t)
    /\ UNCHANGED <<encText, encOut, decIds, decOut, addArg, addOut>>
    /\ UNCHANGED trainVars

\* the byte tokens of a text are turned back into bytes, as decode does
CallTokensToBytes ==
    /\ fnName = "textToByteTokens"
    /\ fnName' = "tokensToBytes"
    /\ fnArgs' = <<fnArgs[1], fnOut>>
    /\ fnOut' = TokensToBytes(fnOut)
    /\ UNCHANGED <<encText, encOut, decIds, decOut, addArg, addOut>>
    /\ UNCHANGED trainVars

CallCountPairs(toks) ==
    /\ fnName = "none"
    /\ fnName' = "countPairs"
    /\ fnArgs' = <<toks>>
    /\ fnOut' = countPairs(toks)
    /\ UNCHANGED <<encText, encOut, decIds, decOut, addArg, addOut>>
    /\ UNCHANGED trainVars

\* the table countPairs returned is handed to getMostFrequentPair, as in the
\* loop of trainBPE; fnArgs keeps the token sequence the table was built from
CallGetMostFrequentPair ==
    /\ fnName = "countPairs"
    /\ fnName' = "getMostFrequentPair"
    /\ fnArgs' = <<fnOut, fnArgs[1]>>
    /\ fnOut' = getMostFrequentPair(fnOut)
    /\ UNCHANGED <<encText, encOut, decIds, decOut, addArg, addOut>>
    /\ UNCHANGED trainVars

\* pieces of the tokens handed to tokenToBytes: "a", "<", "<0x0a>", "<0xE4>",
\* "<0xzz>", "<0x4z>", "<0x-1>", "<0x0"
EscapePieces ==
    { <<97>>, <<60>>, <<60, 48, 120, 48, 97, 62>>, <<60, 48, 120, 69, 52, 62>>,
      <<60, 48, 120, 122, 122, 62>>, <<60, 48, 120, 52, 122, 62>>,
      <<60, 48, 120, 45, 49, 62>>, <<60, 48, 120, 48>> }

EscapeTokens == { Flatten(q) : q \in SeqsUpTo(EscapePieces, MaxPieces) }

CallTokenToBytes(token) ==
    /\ fnName = "none"
    /\ fnName' = "tokenToBytes"
    /\ fnArgs' = <<token>>
    /\ fnOut' = tokenToBytes(token)
    /\ UNCHANGED <<encText, encOut, decIds, decOut, addArg, addOut>>
    /\ UNCHANGED trainVars

NextHelpers ==
    \/ \E toks \in HelperSeqs, token1, token2 \in HelperTokens :
          \E merged \in {token1 \o token2, <<120>>} :
             CallMergePairs(toks, token1, token2, merged)
    \/ \E t \in HelperTexts : CallTextToByteTokens(t)
    \/ CallTokensToBytes
    \/ \E toks \in HelperSeqs : CallCountPairs(toks)
    \/ CallGetMostFrequentPair
    \/ \E token \in EscapeTokens : CallTokenToBytes(token)

SpecHelpers == InitHelpers /\ [][NextHelpers]_vars

\* ------------------------------------------------------------------------
\* A client with a Vocabulary and a merge table of its own
\* ------------------------------------------------------------------------
\* the tokens the client registers: "a", "ab", "<0x0a>"
ClientTokens == { <<97>>, <<97, 98>>, <<60, 48, 120, 48, 97, 62>> }

\* the merge tables the client holds: none; ("a","b") -> "ab"; that rule
\* followed by ("ab","a") -> "aba"; ("a","a") -> "ab", whose merged token
\* is not the concatenation of the pair
ClientMergeTables ==
    { <<>>,
      << <<<<97>>, <<98>>, <<97, 98>>>> >>,
      << <<<<97>>, <<98>>, <<97, 98>>>>, <<<<97, 98>>, <<97>>, <<97, 98, 97>>>> >>,
      << <<<<97>>, <<97>>, <<97, 98>>>> >> }

\* the texts the client encodes: up to MaxTextLen of "a", "b", line feed
ClientTexts == SeqsUpTo({97, 98, 10}, MaxTextLen)

\* the id lists the client decodes: ids from -1 to the size of the vocabulary
ClientIds == SeqsUpTo((-1)..size(vocab), MaxIds)

InitClient ==
    /\ Idle
    /\ vocab = NewVocabulary
    /\ merges \in ClientMergeTables
    /\ NoCalls

\* vocab.addToken(token)
AddToken(token) ==
    /\ pc = "idle"
    /\ vocab' = addToken(vocab, token)
    /\ addArg' = token
    /\ addOut' = addTokenResult(vocab, token)
    /\ UNCHANGED <<pc, text, targetVocabSize, hasOnStep, merges, steps, tokens, stepNum,
                   onStepLog, prevResults>>
    /\ UNCHANGED <<encText, encOut, decIds, decOut, fnName, fnArgs, fnOut>>

\* the client fills its vocabulary and then makes one call of encode,
\* encodeWithDetails or decode
NoCodecCall == encOut.op = "none" /\ decOut.op = "none"

NextClient ==
    \/ \E token \in ClientTokens : NoCodecCall /\ AddToken(token)
    \/ \E t \in ClientTexts : NoCodecCall /\ Encode(t)
    \/ \E t \in ClientTexts : NoCodecCall /\ EncodeWithDetails(t)
    \/ \E ids \in ClientIds : NoCodecCall /\ Decode(ids)

SpecClient == InitClient /\ [][NextClient]_vars

\* ========================================================================
\* Properties
\* ========================================================================

\* C1: round trip. For every training text, every target size >= 256 and
\* every well-formed text T, decoding what encode returned for T with the
\* trained vocabulary and merge table gives back T exactly.
RoundTrip ==
    (pc = "done" /\ targetVocabSize >= 256 /\ decOut.op = "decode" /\ decIds = encOut.ids)
        => (~decOut.threw /\ decOut.text = encText)

\* C3: the merged token is new when it is registered: step k leaves the
\* vocabulary with 256 + k entries, and on return vocab.size is
\* 256 + merges.length.
VocabGrowsByOnePerMerge ==
    /\ \A k \in 1..Len(steps) : steps[k].vocabSize = 256 + k
    /\ size(vocab) = 256 + Len(merges)

\* the canonical token of byte b as the documentation words it: the single
\* character for 32..126, otherwise "<0x" + two lowercase hex digits + ">"
LowerHexDigits == <<48, 49, 50, 51, 52, 53, 54, 55, 56, 57, 97, 98, 99, 100, 101, 102>>
CanonicalByteToken(b) ==
    IF b \in 32..126 THEN <<b>>
    ELSE <<60, 48, 120, LowerHexDigits[(b \div 16) + 1], LowerHexDigits[(b % 16) + 1], 62>>

\* C4: byte coverage. In every state of trainBPE from the first test of the
\* loop condition to its return, for every byte b the canonical token of b
\* is in the vocabulary with id b: entry b of tokenToId maps the canonical
\* token to b and entry b of idToToken maps b back to it (a Map holds one
\* entry per key, so these are the entries getId and getToken return, as
\* the lookups at the ends of the two byte ranges show).
ByteCoverage ==
    /\ size(vocab) >= 256
    /\ \A b \in 0..255 :
          /\ vocab.tokenToId[b + 1] = <<CanonicalByteToken(b), b>>
          /\ vocab.idToToken[b + 1] = <<b, CanonicalByteToken(b)>>
    /\ \A b \in {0, 31, 32, 126, 127, 255} :
          /\ getId(vocab, CanonicalByteToken(b)) = b
          /\ getToken(vocab, b) = CanonicalByteToken(b)

\* C4 witness: training returned with merged tokens registered beyond the
\* byte tokens
ByteCoverageWitness ==
    /\ pc = "done"
    /\ size(vocab) > 256
    /\ text # <<>>

Max(a, b) == IF a >= b THEN a ELSE b

\* C5: terminal condition. When trainBPE has returned, vocab.size >=
\* targetVocabSize or fewer than 2 tokens are left; a merge step is taken
\* only while vocab.size < targetVocabSize, so vocab.size never exceeds
\* max(256, targetVocabSize) and nothing is merged when the target is <= 256.
TerminalCondition ==
    /\ [](/\ pc = "done" => (size(vocab) >= targetVocabSize \/ Len(tokens) < 2)
          /\ size(vocab) <= Max(256, targetVocabSize)
          /\ targetVocabSize <= 256 => (merges = <<>> /\ steps = <<>>))
    /\ [][merges' # merges => (pc = "training" /\ size(vocab) < targetVocabSize)]_vars

\* C5 witness: trainBPE returned early, below the target, after merging the
\* text down to one token
TerminalConditionWitness ==
    /\ pc = "done"
    /\ size(vocab) < targetVocabSize
    /\ Len(tokens) = 1
    /\ merges # <<>>

\* no ordered pair of adjacent tokens occurs at two positions of toks
NoPairTwice(toks) ==
    \A i, j \in 1..(Len(toks) - 1) :
        (toks[i] = toks[j] /\ toks[i + 1] = toks[j + 1]) => i = j

\* C6 as stated: training on a text in which no adjacent pair occurs more
\* than once returns an empty merge table, no steps and 256 vocabulary entries.
NoRepeatedPairNoMerge ==
    (pc = "done" /\ NoPairTwice(textToByteTokens(text)))
        => (merges = <<>> /\ steps = <<>> /\ size(vocab) = 256)

\* C6 as amended: training on a text of fewer than two bytes (no adjacent
\* pair at all) returns at once (no merge step is ever possible) with an
\* empty merge table, no steps and 256 vocabulary entries, whatever the
\* target size.
NoPairNoMerge ==
    Len(textToBytes(text)) < 2
        => /\ merges = <<>>
           /\ steps = <<>>
           /\ stepNum = 0
           /\ size(vocab) = 256
           /\ ~ENABLED TrainStep

\* C6 witness: trainBPE returned for the one-byte text "a" and a target
\* above 256
NoPairNoMergeWitness ==
    /\ pc = "done"
    /\ text = <<97>>
    /\ targetVocabSize > 256
    /\ merges = <<>>

\* C7: determinism. A second call of trainBPE with the same text and target
\* size returns the same vocabulary entries in the same order, the same merge
\* table and the same step history as the first, with or without onStep.
Determinism ==
    (pc = "done" /\ prevResults # <<>>) => TrainingResult = prevResults[1]

\* C7 witness: both calls returned after merging, one with and one without
\* an onStep callback
DeterminismWitness ==
    /\ pc = "done"
    /\ prevResults # <<>>
    /\ Len(merges) >= 2
    /\ hasOnStep
    /\ onStepLog = steps

\* the positions at which the greedy left-to-right scan replaces the pair:
\* position i is one when the pair is at i, i + 1 and i - 1 is none
MatchStarts(toks, left, right) ==
    LET start[i \in 0..Len(toks)] ==
            IF i = 0 THEN FALSE
            ELSE /\ i < Len(toks)
                 /\ toks[i] = left
                 /\ toks[i + 1] = right
                 /\ ~start[i - 1]
    IN {i \in 1..Len(toks) : start[i]}

\* the n-th smallest element of the set S of integers
Nth(S, n) == CHOOSE x \in S : Cardinality({y \in S : y < x}) = n - 1

\* the greedy, non-overlapping, left-to-right rewrite of toks: the positions
\* not consumed as the right half of a match, in order, each match start
\* replaced by merged
GreedyRewrite(toks, left, right, merged) ==
    LET starts == MatchStarts(toks, left, right)
        kept == {i \in 1..Len(toks) : (i - 1) \notin starts}
    IN [n \in 1..Cardinality(kept) |->
          IF Nth(kept, n) \in starts THEN merged ELSE toks[Nth(kept, n)]]

\* C2: mergePairs is the greedy, non-overlapping, left-to-right rewrite; a
\* sequence without the pair is returned unchanged, the output is shorter
\* than the input by the number of replacements, and three "a" merged on
\* ("a", "a") give <<"aa", "a">>.
MergePairsGreedy ==
    fnName = "mergePairs" =>
        LET toks == fnArgs[1]
            left == fnArgs[2]
            right == fnArgs[3]
            merged == fnArgs[4]
            starts == MatchStarts(toks, left, right)
        IN /\ fnOut = GreedyRewrite(toks, left, right, merged)
           /\ Len(fnOut) = Len(toks) - Cardinality(starts)
           /\ (\A i \in 1..(Len(toks) - 1) : ~(toks[i] = left /\ toks[i + 1] = right))
                 => fnOut = toks
           /\ (toks = <<<<97>>, <<97>>, <<97>>>> /\ left = <<97>> /\ right = <<97>>
                 /\ merged = <<97, 97>>)
                 => fnOut = <<<<97, 97>>, <<97>>>>

\* C2 witness: mergePairs was called on three "a" with the pair ("a", "a")
MergePairsGreedyWitness ==
    /\ fnName = "mergePairs"
    /\ fnArgs = <<<<<<97>>, <<97>>, <<97>>>>, <<97>>, <<97>>, <<97, 97>>>>
    /\ fnOut = <<<<97, 97>>, <<97>>>>

\* the ids registered in the vocabulary: those some token maps to
RegisteredIds(V) == {V.tokenToId[i][2] : i \in 1..Len(V.tokenToId)}
\* the tokens registered in the vocabulary: those some id maps to
RegisteredTokens(V) == {V.idToToken[i][2] : i \in 1..Len(V.idToToken)}

\* tokenToId and idToToken are mutually inverse and the ids are 0..size-1
VocabularyConsistent(V) ==
    /\ Len(V.idToToken) = Len(V.tokenToId)
    /\ \A i \in 1..Len(V.tokenToId) :
          getToken(V, V.tokenToId[i][2]) = V.tokenToId[i][1]
    /\ \A i \in 1..Len(V.idToToken) :
          getId(V, V.idToToken[i][2]) = V.idToToken[i][1]
    /\ \A i, j \in 1..Len(V.tokenToId) :
          V.tokenToId[i][1] = V.tokenToId[j][1] => i = j
    /\ RegisteredIds(V) = 0..(size(V) - 1)

\* C8: after any sequence of addToken calls the two maps are mutually
\* inverse bijections on the dense id range [0, size); an id once assigned
\* never changes; addToken of a token already present returns its id and
\* changes nothing; addToken of a new token returns the previous size.
VocabularyInvariant ==
    /\ [](VocabularyConsistent(vocab))
    /\ [][\A i \in 1..Len(vocab.tokenToId) :
             getId(vocab', vocab.tokenToId[i][1]) = vocab.tokenToId[i][2]]_vars
    /\ [][(addArg' # addArg \/ addOut' # addOut \/ vocab' # vocab) =>
             IF getId(vocab, addArg') # undefined
             THEN addOut' = getId(vocab, addArg') /\ vocab' = vocab
             ELSE /\ addOut' = size(vocab)
                  /\ size(vocab') = size(vocab) + 1
                  /\ getId(vocab', addArg') = size(vocab)
                  /\ getToken(vocab', size(vocab)) = addArg']_vars

\* C8 witness: addToken was called for a token added before, after other
\* tokens were added, and returned that token's id
VocabularyInvariantWitness ==
    /\ pc = "idle"
    /\ size(vocab) = 3
    /\ addArg = vocab.tokenToId[1][1]
    /\ addOut = 0

\* C9: decode raises exactly when some id of the list is not registered (so
\* for any negative id and any id >= vocab.size); it then returns no text and
\* leaves the vocabulary as it was.
DecodeRaisesOnUnknownId ==
    /\ [](decOut.op = "decode" =>
            /\ decOut.threw <=> (\E i \in 1..Len(decIds) : decIds[i] \notin RegisteredIds(vocab))
            /\ (\E i \in 1..Len(decIds) : decIds[i] < 0 \/ decIds[i] >= size(vocab))
                  => decOut.threw
            /\ decOut.threw => (decOut.text = <<>> /\ decOut.missing \notin RegisteredIds(vocab)))
    /\ [][decOut' # decOut => vocab' = vocab]_vars

\* C9 witness: decode raised on a list whose first id is registered and whose
\* second is the size of the vocabulary
DecodeRaisesOnUnknownIdWitness ==
    /\ decOut.op = "decode"
    /\ decOut.threw
    /\ Len(decIds) = 2
    /\ decIds[1] = 0
    /\ decIds[2] = size(vocab)
    /\ size(vocab) >= 2

\* the rules of a merge table applied in table order, each as one greedy pass
RECURSIVE ReplayRules(_, _)
ReplayRules(toks, rules) ==
    IF rules = <<>> THEN toks
    ELSE ReplayRules(GreedyRewrite(toks, rules[1][1], rules[1][2], rules[1][3]),
                     Tail(rules))

ByteTokenReversibility ==
    /\ fnName = "textToByteTokens" =>
          LET bytes == textToBytes(fnArgs[1])
          IN /\ Len(fnOut) = Len(bytes)
             /\ \A k \in 1..Len(bytes) :
                   /\ fnOut[k] = CanonicalByteToken(bytes[k])
                   /\ Len(fnOut[k]) = IF bytes[k] \in 32..126 THEN 1 ELSE 6
    /\ fnName = "tokensToBytes" => fnOut = textToBytes(fnArgs[1])

\* C11 witness: the byte tokens of LF, "a", U+4E16 were turned back into the
\* five bytes of the text
ByteTokenReversibilityWitness ==
    /\ fnName = "tokensToBytes"
    /\ fnArgs[1] = <<10, 97, 19990>>
    /\ Len(fnArgs[2]) = 5
    /\ fnArgs[2][1] = <<60, 48, 120, 48, 97, 62>>
    /\ fnOut = <<10, 97, 228, 184, 150>>

\* the number of indices i with toks[i] = l and toks[i + 1] = r
Occurrences(toks, l, r) ==
    Cardinality({i \in 1..(Len(toks) - 1) : toks[i] = l /\ toks[i + 1] = r})

\* the ordered pairs of adjacent tokens of toks
AdjacentPairs(toks) == {<<toks[i], toks[i + 1]>> : i \in 1..(Len(toks) - 1)}

RECURSIVE SumOfCounts(_)
SumOfCounts(table) ==
    IF table = <<>> THEN 0 ELSE Head(table)[2] + SumOfCounts(Tail(table))

\* C12: countPairs maps each ordered pair (l, r) to the number of indices i
\* with tokens[i] = l and tokens[i + 1] = r: one entry per ordered pair that
\* occurs, keyed by l, "\0", r, none for a sequence shorter than 2, the
\* counts summing to length - 1 otherwise; different ordered pairs have
\* different entries, and getMostFrequentPair gives back exactly the left and
\* right token of the entry it chose.
PairCountsExact ==
    /\ fnName = "countPairs" =>
          LET toks == fnArgs[1]
              pairs == AdjacentPairs(toks)
          IN /\ Len(fnOut) = Cardinality(pairs)
             /\ \A p \in pairs :
                   \E k \in 1..Len(fnOut) :
                      /\ fnOut[k][1] = p[1] \o <<0>> \o p[2]
                      /\ fnOut[k][2] = Occurrences(toks, p[1], p[2])
             /\ \A k, n \in 1..Len(fnOut) : fnOut[k][1] = fnOut[n][1] => k = n
             /\ Len(toks) < 2 => fnOut = <<>>
             /\ Len(toks) >= 2 => SumOfCounts(fnOut) = Len(toks) - 1
    /\ (fnName = "getMostFrequentPair" /\ fnOut # <<>>) =>
          LET table == fnArgs[1]
              toks == fnArgs[2]
          IN /\ <<fnOut[1], fnOut[2]>> \in AdjacentPairs(toks)
             /\ fnOut[3] = Occurrences(toks, fnOut[1], fnOut[2])
             /\ \E k \in 1..Len(table) :
                   table[k] = <<fnOut[1] \o <<0>> \o fnOut[2], fnOut[3]>>

\* C12 witness: the pairs ("a", "aa") and ("aa", "a"), whose plain
\* concatenations are equal, were counted apart, and ("aa", "a"), seen
\* twice, was recovered from its entry
PairCountsExactWitness ==
    /\ fnName = "getMostFrequentPair"
    /\ fnArgs[2] = <<<<97, 97>>, <<97>>, <<97, 97>>, <<97>>>>
    /\ fnArgs[1] = << <<<<97, 97, 0, 97>>, 2>>, <<<<97, 0, 97, 97>>, 1>> >>
    /\ fnOut = <<<<97, 97>>, <<97>>, 2>>

\* ------------------------------------------------------------------------
\* Step history, termination and replay
\* ------------------------------------------------------------------------
\* the token sequence step k of the loop started from
TokensBeforeStep(k) == IF k = 1 THEN textToByteTokens(text) ELSE steps[k - 1].tokens

\* what holds of the step records in every state of trainBPE
StepHistoryState ==
    /\ Len(steps) = Len(merges)
    /\ Len(steps) = stepNum
    /\ \A k \in 1..Len(steps) :
          /\ steps[k].step = k
          /\ steps[k].pair = <<merges[k][1], merges[k][2]>>
          /\ steps[k].merged = merges[k][3]
          /\ steps[k].merged = steps[k].pair[1] \o steps[k].pair[2]
          /\ steps[k].frequency
                = Occurrences(TokensBeforeStep(k), steps[k].pair[1], steps[k].pair[2])
          /\ steps[k].tokens
                = GreedyRewrite(TokensBeforeStep(k), steps[k].pair[1],
                                steps[k].pair[2], steps[k].merged)
    /\ steps # <<>> =>
          /\ steps[Len(steps)].tokens = tokens
          /\ steps[Len(steps)].vocabSize = size(vocab)
    /\ onStepLog = IF hasOnStep THEN steps ELSE <<>>

\* what holds of every step that records something: one record is appended,
\* taken after the merged token is registered and the sequence rewritten, and
\* onStep, when given, is called once, with that record
StepHistoryStep ==
    (steps' # steps /\ steps' # <<>>) =>
        LET rec == steps'[Len(steps')]
        IN /\ steps' = Append(steps, rec)
           /\ rec.step = Len(steps) + 1
           /\ rec.frequency = Occurrences(tokens, rec.pair[1], rec.pair[2])
           /\ rec.vocabSize = size(vocab')
           /\ rec.tokens = tokens'
           /\ merges' = Append(merges, <<rec.pair[1], rec.pair[2], rec.merged>>)
           /\ onStepLog' = IF hasOnStep THEN Append(onStepLog, rec) ELSE onStepLog

\* C13: step history of trainBPE. steps and merges have the same length; the
\* k-th record has step = k, pair and merged those of the k-th merge rule
\* with merged = left ++ right, frequency the count of the pair in the
\* sequence before the merge, vocabSize the vocabulary size right after the
\* merged token is registered and tokens the sequence right after the merge;
\* onStep is called once per step, in step order, after the record is made
\* and before the next pair counting.
StepHistory == []StepHistoryState /\ [][StepHistoryStep]_vars

\* C13 witness: trainBPE returned after at least two steps with onStep given,
\* the first merging a pair seen twice
StepHistoryWitness ==
    /\ pc = "done"
    /\ hasOnStep
    /\ Len(steps) >= 2
    /\ steps[1].frequency = 2
    /\ steps[2].step = 2
    /\ Len(onStepLog) = Len(steps)

\* the largest count of the table
MaxCount(table) ==
    CHOOSE c \in {table[k][2] : k \in 1..Len(table)} :
        \A k \in 1..Len(table) : table[k][2] <= c

\* C14: getMostFrequentPair returns null exactly when the table is empty;
\* otherwise it returns a pair whose count is the largest of the table and,
\* among the pairs with that count, the one entered first, which for a table
\* built by countPairs is the one whose first occurrence in the token
\* sequence is leftmost.
MostFrequentFirstEntered ==
    fnName = "getMostFrequentPair" =>
        LET table == fnArgs[1]
            toks == fnArgs[2]
        IN /\ fnOut = <<>> <=> table = <<>>
           /\ table # <<>> =>
                 LET maxCount == MaxCount(table)
                     first == CHOOSE k \in 1..Len(table) :
                                 /\ table[k][2] = maxCount
                                 /\ \A n \in 1..(k - 1) : table[n][2] < maxCount
                     leftmost == CHOOSE i \in 1..(Len(toks) - 1) :
                                    /\ Occurrences(toks, toks[i], toks[i + 1]) = maxCount
                                    /\ \A n \in 1..(i - 1) :
                                          Occurrences(toks, toks[n], toks[n + 1]) < maxCount
                 IN /\ fnOut[3] = maxCount
                    /\ table[first][1] = fnOut[1] \o <<0>> \o fnOut[2]
                    /\ <<fnOut[1], fnOut[2]>> = <<toks[leftmost], toks[leftmost + 1]>>

\* C14 witness: in "b" "a" "a" "b" the three pairs are seen once each, and
\* ("b", "a"), entered first, was returned
MostFrequentFirstEnteredWitness ==
    /\ fnName = "getMostFrequentPair"
    /\ fnArgs[2] = <<<<98>>, <<97>>, <<97>>, <<98>>>>
    /\ fnOut = <<<<98>>, <<97>>, 1>>

\* the hexadecimal digits 0-9, a-f, A-F as character codes
IsHexDigitChar(c) == c \in (48..57) \cup (97..102) \cup (65..70)

HexDigitCharValue(c) ==
    IF c \in 48..57 THEN c - 48 ELSE IF c \in 97..102 THEN c - 87 ELSE c - 55

\* the scan of a token from index i on that takes six characters as one
\* escaped byte only when they are "<0x", two hexadecimal digits and ">",
\* and one character as a literal byte otherwise
RECURSIVE ExactEscapeScan(_, _)
ExactEscapeScan(token, i) ==
    IF i > Len(token) THEN <<>>
    ELSE IF /\ i + 5 <= Len(token)
            /\ SubSeq(token, i, i + 2) = <<60, 48, 120>>
            /\ IsHexDigitChar(token[i + 3])
            /\ IsHexDigitChar(token[i + 4])
            /\ token[i + 5] = 62
         THEN <<16 * HexDigitCharValue(token[i + 3]) + HexDigitCharValue(token[i + 4])>>
              \o ExactEscapeScan(token, i + 6)
         ELSE <<token[i]>> \o ExactEscapeScan(token, i + 1)

\* C15: tokenToBytes scans a token left to right and takes a six-character
\* window as one escaped byte only when it is exactly "<0x", two hexadecimal
\* digits and ">"; in every other case it takes one character as a literal
\* byte; every value it emits is an integer in 0..255.
EscapeScanExact ==
    fnName = "tokenToBytes" =>
        /\ fnOut = ExactEscapeScan(fnArgs[1], 1)
        /\ \A k \in 1..Len(fnOut) : fnOut[k] \in 0..255

\* every step that adds a merge rule leaves the working sequence shorter
MergeShortens == (stepNum' # stepNum) => Len(tokens') < Len(tokens)

\* C16: termination of training. Every merge step of trainBPE strictly
\* shortens the working token sequence, so for every text and every
\* targetVocabSize, however large, trainBPE returns, after at most
\* max(0, n - 1) steps, n being the number of bytes of the text.
TrainingTerminates ==
    /\ [][MergeShortens]_vars
    /\ [](stepNum <= Max(0, Len(textToBytes(text)) - 1))
    /\ <>(pc = "done")

\* C16 witness: asked for a million entries, trainBPE returned after n - 1
\* steps, n >= 7, with one token left
TrainingTerminatesWitness ==
    /\ pc = "done"
    /\ targetVocabSize = 1000000
    /\ Len(tokens) = 1
    /\ stepNum >= 6
    /\ stepNum = Len(textToBytes(text)) - 1

\* token is one of the 256 byte tokens
IsByteToken(token) == \E b \in 0..255 : token = CanonicalByteToken(b)

\* C17: with the vocabulary and merge table of one trainBPE run, encode and
\* encodeWithDetails never raise the token-not-found error, whatever the
\* text: every token left after the merge table is replayed is a byte token
\* or the merged token of some rule, and has an id.
EncodeAfterTrainingNeverRaises ==
    (pc = "done" /\ encOut.op # "none") =>
        LET final == ReplayRules(textToByteTokens(encText), merges)
        IN /\ ~encOut.threw
           /\ Len(encOut.ids) = Len(final)
           /\ \A i \in 1..Len(final) :
                 /\ \/ IsByteToken(final[i])
                    \/ \E k \in 1..Len(merges) : merges[k][3] = final[i]
                 /\ getId(vocab, final[i]) # undefined
                 /\ getId(vocab, final[i]) = encOut.ids[i]

\* C17 witness: after training on "a" "b" up to one merge, the text
\* "e-acute" twice, which shares nothing with the training text, was encoded
\* into the ids of its four byte tokens
EncodeAfterTrainingNeverRaisesWitness ==
    /\ pc = "done"
    /\ text = <<97, 98>>
    /\ Len(merges) = 1
    /\ encOut.op = "encode"
    /\ encText = <<233, 233>>
    /\ ~encOut.threw
    /\ encOut.ids = <<195, 169, 195, 169>>

\* C18: encoding replays training. encodeWithDetails of the training text
\* with the vocabulary and the first k merge rules of the run returns the
\* tokens snapshot of step k (the byte tokens of the text for k = 0); with
\* the whole table it returns the final working sequence of training.
EncodingReplaysTraining ==
    fnName = "encodeWithDetails" =>
        LET k == fnArgs[2]
        IN /\ ~fnOut.threw
           /\ fnOut.tokens = IF k = 0 THEN textToByteTokens(text) ELSE steps[k].tokens
           /\ k = Len(merges) => fnOut.tokens = tokens
           /\ Len(fnOut.ids) = Len(fnOut.tokens)

\* C18 witness: the training text was encoded with the first two of at least
\* three rules, and the result, the snapshot of step 2, differs from both
\* the byte tokens of the text and the final sequence
EncodingReplaysTrainingWitness ==
    /\ fnName = "encodeWithDetails"
    /\ fnArgs[2] = 2
    /\ Len(merges) >= 3
    /\ fnOut.tokens = steps[2].tokens
    /\ fnOut.tokens # textToByteTokens(text)
    /\ fnOut.tokens # tokens

====
